---- MODULE Spec2Model ----
(***************************************************************************)
(* Model of youtube-briefing-agent/analyzers/notebooklm_analyzer.py:       *)
(* upload_transcripts_and_analyze (Batch Coordinator) and the two browser  *)
(* protocols it drives, add_source_to_notebook (Document Injection) and    *)
(* ask_notebook (Query/Response).  Execution is single-threaded: one call  *)
(* frame is active at a time.  Every browser operation is an environment   *)
(* choice: a probe is visible, invisible or throws; an interaction         *)
(* completes or throws.                                                    *)
(***************************************************************************)
EXTENDS Integers, Sequences, FiniteSets, TLC

\* ---------------------------------------------------------------- bounds
MaxVideos == 2

\* different outcomes a direct caller of the protocol calls waits for
MaxObserved == 2

\* ------------------------------------------------------ program constants
MAX_TRANSCRIPT_CHARS == 200000
MIN_ANSWER_CHARS == 10
POLL_ROUNDS == 12

\* "\n\n... (이후 내용 생략)" as Unicode code points (line 370)
OMISSION_MARKER ==
  <<10, 10, 46, 46, 46, 32, 40, 51060, 54980, 32, 45236, 50857, 32, 49373, 47029, 41>>

\* the fixed composite prompt of lines 389-397, passed through verbatim
briefing_question == "briefing_question[389-397]"

\* Python None for Optional[str]
None == "<None>"

\* the selector lists, by length (candidates are tried by list index)
add_btn_selectors == 1..6
text_source_selectors == 1..6
name_selectors == 1..5
text_selectors == 1..4
submit_selectors == 1..6
input_selectors == 1..6
response_selectors == 1..4

\* the five intents of add_source_to_notebook, in code order
Intents == <<"add_source", "text_source", "name", "text", "submit">>

SelectorsOf(stage) ==
  CASE stage = 1 -> add_btn_selectors
    [] stage = 2 -> text_source_selectors
    [] stage = 3 -> name_selectors
    [] stage = 4 -> text_selectors
    [] stage = 5 -> submit_selectors

\* (mutant) the text field is focused before the clipboard is written
ActionsOf_FocusFirst(stage) ==
  CASE stage = 1 -> <<"click">>
    [] stage = 2 -> <<"click">>
    [] stage = 3 -> <<"fill">>
    [] stage = 4 -> <<"click", "clipboard_write", "select_all", "paste">>
    [] stage = 5 -> <<"click">>

\* the interactions performed on a visible candidate of each intent
ActionsOf(stage) ==
  CASE stage = 1 -> <<"click">>
    [] stage = 2 -> <<"click">>
    [] stage = 3 -> <<"fill">>
    [] stage = 4 -> <<"clipboard_write", "click", "select_all", "paste">>
    [] stage = 5 -> <<"click">>

\* ------------------------------------------------------------------ text
\* A text is the first `len` characters of the transcript of video `src`,
\* followed by the characters `tail`.
Min(a, b) == IF a <= b THEN a ELSE b

MkText(src, n) == [src |-> src, len |-> n, tail |-> <<>>]

\* len(t)
TextLen(t) == t.len + Len(t.tail)

\* t[:n]
Slice(t, n) ==
  IF n <= t.len
    THEN [src |-> t.src, len |-> n, tail |-> <<>>]
    ELSE [src |-> t.src, len |-> t.len,
          tail |-> SubSeq(t.tail, 1, Min(n - t.len, Len(t.tail)))]

\* t + s
Concat(t, s) == [src |-> t.src, len |-> t.len, tail |-> t.tail \o s]

\* transcript lengths the extractor may have produced (0: no transcript)
TranscriptLens ==
  {0, MAX_TRANSCRIPT_CHARS, MAX_TRANSCRIPT_CHARS + 1}

\* (mutant) the comparison of line 369 written with >=
TooLong_AtLeast(transcript) == TextLen(transcript) >= MAX_TRANSCRIPT_CHARS

\* lines 369-370
TooLong(transcript) == TextLen(transcript) > MAX_TRANSCRIPT_CHARS

\* (mutant) the marker is appended to the whole transcript, without slicing
Truncate_NoSlice(transcript) ==
  IF TooLong(transcript) THEN Concat(transcript, OMISSION_MARKER) ELSE transcript

Truncate(transcript) ==
  IF TooLong(transcript)
    THEN Concat(Slice(transcript, MAX_TRANSCRIPT_CHARS), OMISSION_MARKER)
    ELSE transcript

\* line 362
FormatTitle(video) == <<"[", video.channel_name, "] ", video.title>>

\* texts a response region may hold
ResponseTexts == {"", "0123456789", "valid answer"}

\* ------------------------------------------------------------- variables
VARIABLES
  pPc,                      \* position in run_pipeline, or "off"
  skip_notebooklm,          \* argument of run_pipeline
  videos,                   \* main.py line 66: the collected videos
  xi,                       \* loop index of extract_all_transcripts
  extractRaised,            \* extract_all_transcripts raised (main.py line 94)
  notebooklm_analysis,      \* main.py line 103
  reported,                 \* arguments of generate_briefing_report, once called
  seen,                     \* outcomes of the protocol calls a direct caller made
  videos_with_transcripts,  \* argument of upload_transcripts_and_analyze
  patchrightInstalled,      \* environment: the import of lines 53 / 232 works
  uPc,                      \* position in upload_transcripts_and_analyze
  idx,                      \* loop index of line 361
  uploaded,                 \* line 360
  handed,                   \* arguments of the add_source_to_notebook calls
  injected,                 \* return values of the add_source_to_notebook calls
  printed,                  \* progress messages of upload_transcripts_and_analyze
  result,                   \* return value of upload_transcripts_and_analyze
  callee,                   \* active protocol call, or "none"
  pc,                       \* position in the active protocol call
  stage,                    \* intent being resolved / wait position
  cand,                     \* candidate index in the current selector list
  auth,                     \* auth_state.exists() in this call: "unchecked" | "missing" | "present"
  playwright,               \* "none" | "started" | "stopped"
  browser,                  \* "none" | "open" | "closed"
  navigated,                \* page.goto was called in this call
  loaded,                   \* page.goto completed: the page shows the notebook
  touched,                  \* a locator / keyboard / clipboard call was made
  raised,                   \* the call propagated an exception to its caller
  failure,                  \* error reported on stderr by this call, or "none"
  liveSessions,             \* browser sessions launched and not yet terminated
  success,                  \* return value of add_source_to_notebook
  clipboard,                \* text last written to the system clipboard
  interacted,               \* an interaction with a page element completed in this call
  reso,                     \* progress of the current resolution loop
  ops,                      \* interactions done on the candidate acted on last
  question,                 \* argument of the ask_notebook call
  askCalls,                 \* number of ask_notebook calls
  input_found,              \* line 270
  enters,                   \* number of Enter presses in this call
  round,                    \* poll round of line 304
  sleeps,                   \* number of poll sleeps of line 318
  answer,                   \* local `answer` of ask_notebook
  askResult                 \* return value of ask_notebook

pipeVars ==
  <<pPc, skip_notebooklm, videos, xi, extractRaised, notebooklm_analysis,
    reported>>
uploadVars ==
  <<videos_with_transcripts, patchrightInstalled, uPc, idx, uploaded, handed,
    injected, printed, result>>
frameVars == <<callee, pc, stage, cand>>
sessionVars ==
  <<auth, playwright, browser, navigated, loaded, touched, raised, failure,
    liveSessions>>
addVars == <<success, clipboard, interacted>>
resoVars == <<reso, ops>>
askVars ==
  <<question, askCalls, input_found, enters, round, sleeps, answer, askResult>>

vars ==
  <<pipeVars, seen, uploadVars, frameVars, sessionVars, addVars, resoVars,
    askVars>>

\* ------------------------------------------------------------------ init
\* the records the collector and the extractor hand over: video i of the
\* list carries its own transcript (possibly none)
VideoLists ==
  UNION {[1..n -> TranscriptLens] : n \in 0..MaxVideos}

MkVideos(lens) ==
  [i \in DOMAIN lens |->
     [video_id |-> i, channel_name |-> "channel", title |-> i,
      transcript |-> MkText(i, lens[i])]]

NoReso ==
  [firstVisible |-> 0, probed |-> 0, acted |-> {}, completed |-> {},
   found |-> FALSE, lastProbe |-> "none"]

\* main.py line 134 has not been reached
NotReported == [called |-> FALSE, videos |-> <<>>, analysis |-> None]

\* no protocol call has been made and upload_transcripts_and_analyze has
\* not started: the locals of the three functions before their first line
IdleInit ==
  /\ idx = 0
  /\ uploaded = 0
  /\ handed = <<>>
  /\ injected = <<>>
  /\ printed = <<>>
  /\ result = None
  /\ callee = "none"
  /\ pc = "idle"
  /\ stage = 0
  /\ cand = 0
  /\ auth = "unchecked"
  /\ playwright = "none"
  /\ browser = "none"
  /\ navigated = FALSE
  /\ loaded = FALSE
  /\ touched = FALSE
  /\ raised = FALSE
  /\ failure = "none"
  /\ liveSessions = 0
  /\ success = FALSE
  /\ clipboard = MkText(0, 0)
  /\ interacted = FALSE
  /\ reso = NoReso
  /\ ops = <<>>
  /\ question = None
  /\ askCalls = 0
  /\ input_found = FALSE
  /\ enters = 0
  /\ round = 0
  /\ sleeps = 0
  /\ answer = None
  /\ askResult = None

\* run_pipeline is not running
NoPipeline ==
  /\ pPc = "off"
  /\ skip_notebooklm = FALSE
  /\ videos = <<>>
  /\ xi = 0
  /\ extractRaised = FALSE
  /\ notebooklm_analysis = None
  /\ reported = NotReported

\* upload_transcripts_and_analyze is called with a list of video records
Init ==
  /\ \E lens \in VideoLists : videos_with_transcripts = MkVideos(lens)
  /\ patchrightInstalled \in BOOLEAN
  /\ uPc = "entry"
  /\ NoPipeline
  /\ seen = {}
  /\ IdleInit

\* ------------------------------------------ upload_transcripts_and_analyze
\* (mutant) the early return of lines 353-355 is never taken
NoVideos_Never(list) == Len(list) < 0

\* line 353: `if not videos_with_transcripts`
NoVideos(list) == Len(list) = 0

\* (mutant) no document is skipped
NoTranscript_Never(video) == FALSE

\* line 365: `if not transcript`
NoTranscript(video) == TextLen(video.transcript) = 0

\* (mutant) the guard of line 384 written with <
NoneUploaded_Negative(n) == n < 0

\* line 384: `if uploaded == 0`
NoneUploaded(n) == n = 0

\* (mutant) the failures are counted instead of the successes
CountSuccess_Inverted(n, ok) == IF ok THEN n ELSE n + 1

\* lines 379-380
CountSuccess(n, ok) == IF ok THEN n + 1 ELSE n

\* a fresh call frame: the locals of a protocol call before its first line
EnterCall(fn) ==
  /\ callee' = fn
  /\ pc' = "import"
  /\ stage' = 0
  /\ cand' = 0
  /\ auth' = "unchecked"
  /\ playwright' = "none"
  /\ browser' = "none"
  /\ navigated' = FALSE
  /\ loaded' = FALSE
  /\ touched' = FALSE
  /\ raised' = FALSE
  /\ failure' = "none"
  /\ liveSessions' = liveSessions
  /\ reso' = NoReso
  /\ ops' = <<>>

\* the frame of a protocol call that returned is gone: what the call
\* reported and what its page showed are no longer part of the state
LeaveCall ==
  /\ failure' = "none"
  /\ loaded' = FALSE

\* lines 350-357
UploadEntry ==
  /\ uPc = "entry"
  /\ IF NoVideos(videos_with_transcripts)
       THEN /\ printed' = Append(printed, "no_transcripts")
            /\ result' = None
            /\ uPc' = "done"
            /\ UNCHANGED <<idx, uploaded>>
       ELSE /\ printed' = Append(printed, "analysis_start")
            /\ uPc' = "loop"
            /\ idx' = 1
            /\ uploaded' = 0
            /\ UNCHANGED result
  /\ UNCHANGED <<videos_with_transcripts, patchrightInstalled, handed, injected>>
  /\ UNCHANGED <<frameVars, sessionVars, addVars, resoVars, askVars>>
  /\ UNCHANGED <<pipeVars, seen>>

\* lines 361-366: a video without transcript is skipped
UploadSkip ==
  /\ uPc = "loop"
  /\ idx <= Len(videos_with_transcripts)
  /\ NoTranscript(videos_with_transcripts[idx])
  /\ idx' = idx + 1
  /\ UNCHANGED <<videos_with_transcripts, patchrightInstalled, uPc, uploaded,
                 handed, injected, printed, result>>
  /\ UNCHANGED <<frameVars, sessionVars, addVars, resoVars, askVars>>
  /\ UNCHANGED <<pipeVars, seen>>

\* (mutant) the truncated text is written back into the video record
StoreBack_InPlace(list, i, text) == [list EXCEPT ![i].transcript = text]

\* lines 363-370: `transcript` is a local; the record of the caller's list
\* is not assigned to
StoreBack(list, i, text) == list

\* lines 361-377: truncate and call add_source_to_notebook
UploadInject ==
  /\ uPc = "loop"
  /\ idx <= Len(videos_with_transcripts)
  /\ ~NoTranscript(videos_with_transcripts[idx])
  /\ LET video == videos_with_transcripts[idx]
     IN /\ handed' = Append(handed, [source_title |-> FormatTitle(video),
                                     source_text |-> Truncate(video.transcript)])
        /\ videos_with_transcripts' =
             StoreBack(videos_with_transcripts, idx, Truncate(video.transcript))
  /\ uPc' = "inject"
  /\ EnterCall("add_source_to_notebook")
  /\ success' = FALSE
  /\ interacted' = FALSE
  /\ UNCHANGED <<patchrightInstalled, idx, uploaded, injected, printed, result,
                 clipboard>>
  /\ UNCHANGED askVars
  /\ UNCHANGED <<pipeVars, seen>>

\* (mutant) a failed injection is tried again
NextIndex_RetryFailed(i, ok) == IF ok THEN i + 1 ELSE i

\* line 361: the `for` loop moves on to the next video whatever the call
\* returned
NextIndex(i, ok) == i + 1

\* lines 372-380: the call returned
UploadAfterInject ==
  /\ uPc = "inject"
  /\ callee = "add_source_to_notebook"
  /\ pc = "return"
  /\ IF raised
       THEN /\ uPc' = "raised"
            /\ UNCHANGED <<idx, uploaded, injected>>
       ELSE /\ uPc' = "loop"
            /\ injected' = Append(injected, success)
            /\ uploaded' = CountSuccess(uploaded, success)
            /\ idx' = NextIndex(idx, success)
  /\ callee' = "none"
  /\ pc' = "idle"
  /\ LeaveCall
  /\ interacted' = FALSE
  /\ UNCHANGED <<videos_with_transcripts, patchrightInstalled, handed, printed,
                 result, stage, cand>>
  /\ UNCHANGED <<auth, playwright, browser, navigated, touched, raised,
                 liveSessions, success, clipboard, resoVars, askVars>>
  /\ UNCHANGED <<pipeVars, seen>>

\* lines 382-386: nothing uploaded, the question phase is skipped
UploadNothing ==
  /\ uPc = "loop"
  /\ idx > Len(videos_with_transcripts)
  /\ NoneUploaded(uploaded)
  /\ printed' = printed \o <<"upload_summary", "analysis_skipped">>
  /\ result' = None
  /\ uPc' = "done"
  /\ UNCHANGED <<videos_with_transcripts, patchrightInstalled, idx, uploaded,
                 handed, injected>>
  /\ UNCHANGED <<frameVars, sessionVars, addVars, resoVars, askVars>>
  /\ UNCHANGED <<pipeVars, seen>>

\* lines 382-404: call ask_notebook with the briefing question
UploadAsk ==
  /\ uPc = "loop"
  /\ idx > Len(videos_with_transcripts)
  /\ ~NoneUploaded(uploaded)
  /\ printed' = printed \o <<"upload_summary", "sending_question">>
  /\ uPc' = "ask"
  /\ EnterCall("ask_notebook")
  /\ question' = briefing_question
  /\ askCalls' = askCalls + 1
  /\ input_found' = FALSE
  /\ enters' = 0
  /\ round' = 0
  /\ sleeps' = 0
  /\ answer' = None
  /\ askResult' = None
  /\ UNCHANGED <<videos_with_transcripts, patchrightInstalled, idx, uploaded,
                 handed, injected, result>>
  /\ UNCHANGED addVars
  /\ UNCHANGED <<pipeVars, seen>>

\* lines 400-406: the answer of ask_notebook is the return value
UploadAfterAsk ==
  /\ uPc = "ask"
  /\ callee = "ask_notebook"
  /\ pc = "return"
  /\ IF raised
       THEN /\ uPc' = "raised"
            /\ UNCHANGED result
       ELSE /\ uPc' = "done"
            /\ result' = askResult
  /\ callee' = "none"
  /\ pc' = "idle"
  /\ LeaveCall
  /\ UNCHANGED <<videos_with_transcripts, patchrightInstalled, idx, uploaded,
                 handed, injected, printed, stage, cand>>
  /\ UNCHANGED <<auth, playwright, browser, navigated, touched, raised,
                 liveSessions, addVars, resoVars, askVars>>
  /\ UNCHANGED <<pipeVars, seen>>

\* ------------------------------------------------ shared protocol pieces
ProbeOutcomes == {"visible", "invisible", "throws"}
LaunchOutcomes == {"ok", "start_raises", "launch_raises", "page_raises"}

Goto(p, s, c) ==
  /\ pc' = p
  /\ stage' = s
  /\ cand' = c

\* (mutant) the driver is started without a `with` block and keeps running
ExitWith_Leaks(pw) == pw

\* lines 67 / 245: leaving the `with sync_playwright()` block stops the
\* driver, and with it the browser it launched
ExitWith(pw) == IF pw = "started" THEN "stopped" ELSE pw

\* 1 if a browser in state b under a driver in state pw is a live session
Live(b, pw) == IF b = "open" /\ pw = "started" THEN 1 ELSE 0

\* (mutant) a failed page.goto is swallowed and the protocol goes on
GotoHandling_Swallows(ok) == "proceed"

\* lines 80 / 257: page.goto is not guarded by an inner try
GotoHandling(ok) == IF ok THEN "proceed" ELSE "propagate"

\* (mutant) the missing credential is reported like any other failure
CredentialReport_Generic == "exception"

\* lines 62-63 / 241: the message printed for a missing credential
CredentialReport == "no_credential"

\* (mutant) the credential check lets a missing file through
AuthOk_Always(a) == TRUE

\* lines 61 / 240: `if not auth_state.exists()` guards the rest of the call
AuthOk(a) == a = "present"

\* (mutant) only the result of is_visible() is handled; a probe that throws
\* escapes the loop
ProbeHandling_Propagates(r) ==
  CASE r = "visible" -> "act"
    [] r = "invisible" -> "continue"
    [] r = "throws" -> "propagate"

\* lines 98-106: what the loop body does with the outcome of is_visible()
ProbeHandling(r) ==
  CASE r = "visible" -> "act"
    [] r = "invisible" -> "continue"
    [] r = "throws" -> "continue"

\* (mutant) the loop goes on after an interaction that completed
ActHandling_NoBreak(complete) == "continue"

\* lines 101-106: an interaction that throws inside the loop body lands in
\* the same `except Exception: continue`
ActHandling(complete) == IF complete THEN "break" ELSE "continue"

\* (mutant) the outer handler re-raises
OuterHandling_Reraise == "reraise"

\* lines 207-209 / 329-331: the outer `except Exception` returns a failure
OuterHandling == "return_failure"

\* the probe of candidate `cand` recorded in the loop's progress
Probed(r) ==
  [reso EXCEPT !.probed = cand,
               !.lastProbe = r,
               !.firstVisible = IF r = "visible" /\ @ = 0 THEN cand ELSE @]

\* the interaction with candidate `cand` recorded in the loop's progress
Acted(complete) ==
  [reso EXCEPT !.acted = @ \cup {cand},
               !.completed = IF complete THEN @ \cup {cand} ELSE @,
               !.found = complete]

\* (mutant) `continue` probes the same candidate again
Continue_SameCandidate(selectors) == Goto("probe", stage, cand)

\* `continue`: the next candidate, or the end of the selector list
Continue(selectors) ==
  IF cand < Cardinality(selectors)
    THEN Goto("probe", stage, cand + 1)
    ELSE Goto("loop_end", stage, cand)

\* ------------------------------------------------- add_source_to_notebook
InAdd(p) == callee = "add_source_to_notebook" /\ pc = p

source_text == handed[Len(handed)].source_text
source_title == handed[Len(handed)].source_title

\* lines 207-209: an exception raised inside the `with` block while the
\* driver is in state pw
AddExceptFrom(pw, b) ==
  /\ Goto("return", stage, cand)
  /\ playwright' = ExitWith(pw)
  /\ liveSessions' = liveSessions - Live(browser, playwright) + Live(b, ExitWith(pw))
  /\ IF OuterHandling = "return_failure"
       THEN success' = FALSE /\ raised' = FALSE /\ failure' = "exception"
       ELSE success' = success /\ raised' = TRUE /\ failure' = failure

AddExcept == AddExceptFrom(playwright, browser)

\* lines 52-56
AddImport ==
  /\ InAdd("import")
  /\ IF patchrightInstalled
       THEN Goto("auth", stage, cand) /\ UNCHANGED <<success, failure>>
       ELSE /\ Goto("return", stage, cand)
            /\ success' = FALSE
            /\ failure' = "import_error"
  /\ UNCHANGED <<pipeVars, seen, uploadVars, callee, auth, playwright, liveSessions, browser,
                 navigated, loaded, touched, raised, clipboard, interacted, resoVars, askVars>>

\* lines 58-64
AddAuthCheck ==
  /\ InAdd("auth")
  /\ \E a \in {"missing", "present"} :
       /\ auth' = a
       /\ IF AuthOk(a)
            THEN Goto("launch", stage, cand) /\ UNCHANGED <<success, failure>>
            ELSE /\ Goto("return", stage, cand)
                 /\ success' = FALSE
                 /\ failure' = CredentialReport
  /\ UNCHANGED <<pipeVars, seen, uploadVars, callee, playwright, liveSessions, browser,
                 navigated, loaded, touched, raised, clipboard, interacted, resoVars, askVars>>

\* lines 66-76
AddLaunch ==
  /\ InAdd("launch")
  /\ \E r \in LaunchOutcomes :
       CASE r = "ok" ->
              /\ playwright' = "started"
              /\ browser' = "open"
              /\ liveSessions' = liveSessions + 1
              /\ Goto("goto", stage, cand)
              /\ UNCHANGED <<success, raised, failure>>
         [] r = "start_raises" ->
              /\ AddExceptFrom("none", browser)
              /\ UNCHANGED browser
         [] r = "launch_raises" ->
              /\ AddExceptFrom("started", browser)
              /\ UNCHANGED browser
         [] r = "page_raises" ->
              /\ AddExceptFrom("started", "open")
              /\ browser' = "open"
  /\ UNCHANGED <<pipeVars, seen, uploadVars, callee, auth, navigated, loaded, touched, clipboard, interacted,
                 resoVars, askVars>>

\* lines 79-80
AddGoto ==
  /\ InAdd("goto")
  /\ navigated' = TRUE
  /\ \E ok \in BOOLEAN :
       /\ loaded' = ok
       /\ IF GotoHandling(ok) = "proceed"
            THEN /\ Goto("wait", 0, 0)
                 /\ UNCHANGED <<playwright, liveSessions, success, raised,
                                failure>>
            ELSE AddExcept
  /\ UNCHANGED <<pipeVars, seen, uploadVars, callee, auth, browser, touched, clipboard, interacted,
                 resoVars, askVars>>

\* lines 81, 112, 134, 180, 202: page.wait_for_timeout after stage `stage`
AddWait ==
  /\ InAdd("wait")
  /\ \E ok \in BOOLEAN :
       IF ok
         THEN /\ IF stage = Len(Intents)
                   THEN Goto("close", stage, 0)
                   ELSE Goto("probe", stage + 1, 1)
              /\ UNCHANGED <<playwright, liveSessions, success, raised, failure>>
         ELSE AddExcept
  /\ UNCHANGED <<pipeVars, seen, uploadVars, callee, auth, browser, navigated, loaded, touched,
                 clipboard, interacted, resoVars, askVars>>

\* lines 99-100, 126-127, 148-149, 166-167, 194-195
AddProbe ==
  /\ InAdd("probe")
  /\ touched' = TRUE
  /\ \E r \in ProbeOutcomes :
       /\ reso' = Probed(r)
       /\ CASE ProbeHandling(r) = "act" ->
                 /\ Goto("act", stage, cand)
                 /\ UNCHANGED <<playwright, liveSessions, success, raised, failure>>
            [] ProbeHandling(r) = "continue" ->
                 /\ Continue(SelectorsOf(stage))
                 /\ UNCHANGED <<playwright, liveSessions, success, raised, failure>>
            [] OTHER -> AddExcept
  /\ UNCHANGED <<pipeVars, seen, uploadVars, callee, auth, browser, navigated, loaded, clipboard, interacted,
                 ops, askVars>>

\* lines 101-104, 128-130, 150-152, 168-176, 196-198: the interactions with
\* the visible candidate; n of them complete before one throws
AddAct ==
  /\ InAdd("act")
  /\ \E n \in 0..Len(ActionsOf(stage)) :
       LET complete == n = Len(ActionsOf(stage))
       IN /\ ops' = SubSeq(ActionsOf(stage), 1, n)
          /\ clipboard' = IF stage = 4 /\ n >= 1 THEN source_text ELSE clipboard
          /\ interacted' = (interacted \/ n >= 1)
          /\ reso' = Acted(complete)
          /\ CASE ActHandling(complete) = "break" ->
                    /\ Goto("loop_end", stage, cand)
                    /\ UNCHANGED <<playwright, liveSessions, success, raised,
                                   failure>>
               [] ActHandling(complete) = "continue" ->
                    /\ Continue(SelectorsOf(stage))
                    /\ UNCHANGED <<playwright, liveSessions, success, raised,
                                   failure>>
               [] OTHER -> AddExcept
  /\ UNCHANGED <<pipeVars, seen, uploadVars, callee, auth, browser, navigated, loaded, touched,
                 askVars>>

\* (mutant) an intent that is not found ends the motions
NotFoundHandling_Aborts(found) == IF found THEN "proceed" ELSE "abort"

\* lines 108-112: `if not clicked` only prints; the loops of lines 124, 146,
\* 164 and 192 have no not-found branch at all
NotFoundHandling(found) == "proceed"

\* (mutant) success is reported only when some element was acted on
MotionsResult_NeedsInteraction(acted) == acted

\* line 205: `return True`, whatever the loops found and did
MotionsResult(acted) == TRUE

\* lines 108-112, 134, 156, 180, 202: after the loop of an intent; there is
\* no wait between the name loop and the text loop
AddLoopEnd ==
  /\ InAdd("loop_end")
  /\ IF NotFoundHandling(reso.found) = "proceed"
       THEN IF stage = 3
              THEN Goto("probe", stage + 1, 1)
              ELSE Goto("wait", stage, 0)
       ELSE Goto("close", stage, 0)
  /\ reso' = NoReso
  /\ ops' = <<>>
  /\ UNCHANGED <<pipeVars, seen, uploadVars, callee, sessionVars, addVars, askVars>>

\* lines 203-205
AddClose ==
  /\ InAdd("close")
  /\ \E ok \in BOOLEAN :
       IF ok
         THEN /\ browser' = "closed"
              /\ playwright' = ExitWith(playwright)
              /\ liveSessions' = liveSessions - Live(browser, playwright)
              /\ success' = MotionsResult(interacted)
              /\ Goto("return", stage, cand)
              /\ UNCHANGED <<raised, failure>>
         ELSE AddExcept /\ UNCHANGED browser
  /\ UNCHANGED <<pipeVars, seen, uploadVars, callee, auth, navigated, loaded, touched, clipboard, interacted,
                 resoVars, askVars>>

\* ----------------------------------------------------------- ask_notebook
InAsk(p) == callee = "ask_notebook" /\ pc = p

\* (mutant) the threshold of line 310 written with >=
Acceptable_AtLeast(text) == text # "" /\ Len(text) >= MIN_ANSWER_CHARS

\* line 310: `if text and len(text) > 10`
Acceptable(text) == text # "" /\ Len(text) > MIN_ANSWER_CHARS

\* (mutant) the `if answer: break` of lines 316-317 is never taken
Truthy_Never(a) == FALSE

\* lines 316, 322: `if answer`
Truthy(a) == a # None /\ a # ""

\* lines 275-276
input_actions == <<"click", "fill">>

\* lines 329-331
AskExceptFrom(pw, b) ==
  /\ Goto("return", stage, cand)
  /\ playwright' = ExitWith(pw)
  /\ liveSessions' = liveSessions - Live(browser, playwright) + Live(b, ExitWith(pw))
  /\ IF OuterHandling = "return_failure"
       THEN askResult' = None /\ raised' = FALSE /\ failure' = "exception"
       ELSE askResult' = askResult /\ raised' = TRUE /\ failure' = failure

AskExcept == AskExceptFrom(playwright, browser)

\* lines 231-235
AskImport ==
  /\ InAsk("import")
  /\ IF patchrightInstalled
       THEN Goto("auth", stage, cand) /\ UNCHANGED <<askResult, failure>>
       ELSE /\ Goto("return", stage, cand)
            /\ askResult' = None
            /\ failure' = "import_error"
  /\ UNCHANGED <<pipeVars, seen, uploadVars, callee, auth, playwright, liveSessions, browser,
                 navigated, loaded, touched, raised, addVars, resoVars,
                 question, askCalls, input_found, enters, round, sleeps,
                 answer>>

\* lines 237-242
AskAuthCheck ==
  /\ InAsk("auth")
  /\ \E a \in {"missing", "present"} :
       /\ auth' = a
       /\ IF AuthOk(a)
            THEN Goto("launch", stage, cand) /\ UNCHANGED <<askResult, failure>>
            ELSE /\ Goto("return", stage, cand)
                 /\ askResult' = None
                 /\ failure' = CredentialReport
  /\ UNCHANGED <<pipeVars, seen, uploadVars, callee, playwright, liveSessions, browser,
                 navigated, loaded, touched, raised, addVars, resoVars,
                 question, askCalls, input_found, enters, round, sleeps,
                 answer>>

\* lines 244-254
AskLaunch ==
  /\ InAsk("launch")
  /\ \E r \in LaunchOutcomes :
       CASE r = "ok" ->
              /\ playwright' = "started"
              /\ browser' = "open"
              /\ liveSessions' = liveSessions + 1
              /\ Goto("goto", stage, cand)
              /\ UNCHANGED <<askResult, raised, failure>>
         [] r = "start_raises" ->
              /\ AskExceptFrom("none", browser)
              /\ UNCHANGED browser
         [] r = "launch_raises" ->
              /\ AskExceptFrom("started", browser)
              /\ UNCHANGED browser
         [] r = "page_raises" ->
              /\ AskExceptFrom("started", "open")
              /\ browser' = "open"
  /\ UNCHANGED <<pipeVars, seen, uploadVars, callee, auth, navigated, loaded, touched, addVars,
                 resoVars, question, askCalls, input_found, enters, round,
                 sleeps, answer>>

\* lines 256-257
AskGoto ==
  /\ InAsk("goto")
  /\ navigated' = TRUE
  /\ \E ok \in BOOLEAN :
       /\ loaded' = ok
       /\ IF GotoHandling(ok) = "proceed"
            THEN /\ Goto("wait", 0, 0)
                 /\ UNCHANGED <<playwright, liveSessions, askResult, raised,
                                failure>>
            ELSE AskExcept
  /\ UNCHANGED <<pipeVars, seen, uploadVars, callee, auth, browser, touched, addVars,
                 resoVars, question, askCalls, input_found, enters, round,
                 sleeps, answer>>

\* line 258
AskSettle ==
  /\ InAsk("wait")
  /\ \E ok \in BOOLEAN :
       IF ok
         THEN Goto("probe", 0, 1) /\ UNCHANGED <<playwright, liveSessions, askResult, raised, failure>>
         ELSE AskExcept
  /\ UNCHANGED <<pipeVars, seen, uploadVars, callee, auth, browser, navigated, loaded, touched,
                 addVars, resoVars, question, askCalls, input_found, enters,
                 round, sleeps, answer>>

\* lines 271-274, 280-281
AskProbeInput ==
  /\ InAsk("probe")
  /\ touched' = TRUE
  /\ \E r \in ProbeOutcomes :
       /\ reso' = Probed(r)
       /\ CASE ProbeHandling(r) = "act" ->
                 /\ Goto("act", stage, cand)
                 /\ UNCHANGED <<playwright, liveSessions, askResult, raised, failure>>
            [] ProbeHandling(r) = "continue" ->
                 /\ Continue(input_selectors)
                 /\ UNCHANGED <<playwright, liveSessions, askResult, raised, failure>>
            [] OTHER -> AskExcept
  /\ UNCHANGED <<pipeVars, seen, uploadVars, callee, auth, browser, navigated, loaded, addVars,
                 ops, question, askCalls, input_found, enters, round, sleeps,
                 answer>>

\* lines 275-281: click, fill, input_found = True, break
AskActInput ==
  /\ InAsk("act")
  /\ \E n \in 0..Len(input_actions) :
       LET complete == n = Len(input_actions)
       IN /\ ops' = SubSeq(input_actions, 1, n)
          /\ reso' = Acted(complete)
          /\ CASE ActHandling(complete) = "break" ->
                    /\ input_found' = TRUE
                    /\ Goto("loop_end", stage, cand)
                    /\ UNCHANGED <<playwright, liveSessions, askResult, raised, failure>>
               [] ActHandling(complete) = "continue" ->
                    /\ Continue(input_selectors)
                    /\ UNCHANGED <<playwright, liveSessions, askResult, raised, failure, input_found>>
               [] OTHER -> AskExcept /\ UNCHANGED input_found
  /\ UNCHANGED <<pipeVars, seen, uploadVars, callee, auth, browser, navigated, loaded, touched,
                 addVars, question, askCalls, enters, round, sleeps, answer>>

\* (mutant) the question is sent whether or not an input was found
InputMissing_Never(found) == FALSE

\* line 283: `if not input_found`
InputMissing(found) == ~found

\* lines 283-286: no prompt input, close the browser and return None
AskInputMissing ==
  /\ InAsk("loop_end")
  /\ InputMissing(input_found)
  /\ \E ok \in BOOLEAN :
       IF ok
         THEN /\ browser' = "closed"
              /\ playwright' = ExitWith(playwright)
              /\ liveSessions' = liveSessions - Live(browser, playwright)
              /\ askResult' = None
              /\ failure' = "input_not_found"
              /\ Goto("return", stage, cand)
              /\ UNCHANGED raised
         ELSE AskExcept /\ UNCHANGED browser
  /\ UNCHANGED <<pipeVars, seen, uploadVars, callee, auth, navigated, loaded, touched, addVars,
                 resoVars, question, askCalls, input_found, enters, round,
                 sleeps, answer>>

\* lines 288-289: submit with Enter
AskEnter ==
  /\ InAsk("loop_end")
  /\ ~InputMissing(input_found)
  /\ \E ok \in BOOLEAN :
       IF ok
         THEN /\ enters' = enters + 1
              /\ Goto("initial_wait", stage, 0)
              /\ UNCHANGED <<playwright, liveSessions, askResult, raised, failure>>
         ELSE AskExcept /\ UNCHANGED enters
  /\ reso' = NoReso
  /\ ops' = <<>>
  /\ UNCHANGED <<pipeVars, seen, uploadVars, callee, auth, browser, navigated, loaded, touched,
                 addVars, question, askCalls, input_found, round, sleeps,
                 answer>>

\* lines 293, 303-304: first wait, then the first poll round
AskInitialWait ==
  /\ InAsk("initial_wait")
  /\ \E ok \in BOOLEAN :
       IF ok
         THEN /\ round' = 1
              /\ Goto("poll_probe", stage, 1)
              /\ UNCHANGED <<playwright, liveSessions, askResult, raised, failure>>
         ELSE AskExcept /\ UNCHANGED round
  /\ UNCHANGED <<pipeVars, seen, uploadVars, callee, auth, browser, navigated, loaded, touched,
                 addVars, resoVars, question, askCalls, input_found, enters,
                 sleeps, answer>>

\* (mutant) a region that yields no answer ends the round
NextResponse_EndsRound == Goto("round_end", stage, cand)

\* `continue` / fall through in the loop of line 305
NextResponse ==
  IF cand < Cardinality(response_selectors)
    THEN Goto("poll_probe", stage, cand + 1)
    ELSE Goto("round_end", stage, cand)

\* lines 305-308, 313-314
AskProbeResponse ==
  /\ InAsk("poll_probe")
  /\ \E r \in ProbeOutcomes :
       /\ reso' = Probed(r)
       /\ CASE ProbeHandling(r) = "act" ->
                 /\ Goto("poll_read", stage, cand)
                 /\ UNCHANGED <<playwright, liveSessions, askResult, raised, failure>>
            [] ProbeHandling(r) = "continue" ->
                 /\ NextResponse
                 /\ UNCHANGED <<playwright, liveSessions, askResult, raised, failure>>
            [] OTHER -> AskExcept
  /\ UNCHANGED <<pipeVars, seen, uploadVars, callee, auth, browser, navigated, loaded, touched,
                 addVars, ops, question, askCalls, input_found, enters, round,
                 sleeps, answer>>

\* lines 309-314: read the region; text longer than 10 characters is taken
AskReadResponse ==
  /\ InAsk("poll_read")
  /\ \/ \E text \in ResponseTexts :
          /\ ops' = <<"inner_text">>
          /\ reso' = Acted(Acceptable(text))
          /\ IF Acceptable(text)
               THEN answer' = text /\ Goto("round_end", stage, cand)
               ELSE UNCHANGED answer /\ NextResponse
          /\ UNCHANGED <<playwright, liveSessions, askResult, raised, failure>>
     \/ /\ ops' = <<>>
        /\ reso' = Acted(FALSE)
        /\ UNCHANGED answer
        /\ CASE ActHandling(FALSE) = "continue" ->
                  NextResponse /\ UNCHANGED <<playwright, liveSessions, askResult, raised, failure>>
             [] OTHER -> AskExcept
  /\ UNCHANGED <<pipeVars, seen, uploadVars, callee, auth, browser, navigated, loaded, touched,
                 addVars, question, askCalls, input_found, enters, round,
                 sleeps>>

\* (mutant) the loop header admits one round too many
MoreRounds_OneMore(r) == r <= POLL_ROUNDS

\* line 304: `for _ in range(12)`
MoreRounds(r) == r < POLL_ROUNDS

\* lines 316-318 and the loop header of line 304
AskRoundEnd ==
  /\ InAsk("round_end")
  /\ IF Truthy(answer)
       THEN /\ Goto("close", stage, 0)
            /\ UNCHANGED <<round, sleeps, playwright, liveSessions, askResult, raised, failure>>
       ELSE \E ok \in BOOLEAN :
              IF ok
                THEN /\ sleeps' = sleeps + 1
                     /\ IF MoreRounds(round)
                          THEN round' = round + 1 /\ Goto("poll_probe", stage, 1)
                          ELSE UNCHANGED round /\ Goto("close", stage, 0)
                     /\ UNCHANGED <<playwright, liveSessions, askResult, raised, failure>>
                ELSE AskExcept /\ UNCHANGED <<round, sleeps>>
  /\ reso' = NoReso
  /\ ops' = <<>>
  /\ UNCHANGED <<pipeVars, seen, uploadVars, callee, auth, browser, navigated, loaded, touched,
                 addVars, question, askCalls, input_found, enters, answer>>

\* lines 320-327
AskClose ==
  /\ InAsk("close")
  /\ \E ok \in BOOLEAN :
       IF ok
         THEN /\ browser' = "closed"
              /\ playwright' = ExitWith(playwright)
              /\ liveSessions' = liveSessions - Live(browser, playwright)
              /\ askResult' = answer
              /\ Goto("return", stage, cand)
              /\ UNCHANGED <<raised, failure>>
         ELSE AskExcept /\ UNCHANGED browser
  /\ UNCHANGED <<pipeVars, seen, uploadVars, callee, auth, navigated, loaded, touched, addVars,
                 resoVars, question, askCalls, input_found, enters, round,
                 sleeps, answer>>

\* ----------------------------------------------- extract_all_transcripts
\* (mutant) every video is kept, with whatever extract_transcript returned
Retrieved_Always(text) == TRUE

\* transcript_extractor.py line 148: `if text` (None and "" are both falsy)
Retrieved(text) == TextLen(text) > 0

\* transcript_extractor.py lines 136, 159: `results` after the first n
\* videos of the list
results(n) ==
  SelectSeq(SubSeq(videos, 1, n), LAMBDA v : Retrieved(v.transcript))

\* transcript_extractor.py line 146: extract_transcript returns None or ""
\* (0), or a text, here one that upload_transcripts_and_analyze truncates
ExtractedLens == {0, MAX_TRANSCRIPT_CHARS + 1}

\* (mutant) a failure of Phase 2 ends the pipeline
ExtractionHandling_Abort == "abort"

\* main.py lines 94-98: Phase 2 failed, go on with the collected videos
ExtractionHandling == "continue"

\* ----------------------------------------------------------- run_pipeline
\* (mutant) the --skip-notebooklm flag is not looked at
RunAnalysis_IgnoresSkip(skip, list) == Len(list) > 0

\* main.py line 105: `if not skip_notebooklm and videos_with_transcripts`
RunAnalysis(skip, list) == ~skip /\ Len(list) > 0

\* main.py lines 116-119: Phase 3 failed, go on without analysis
AnalysisHandling == "continue"

\* main.py lines 64-71: collect_videos returns the videos or raises
PipeCollect ==
  /\ pPc = "collect"
  /\ \/ \E n \in 0..MaxVideos : videos' = MkVideos([i \in 1..n |-> 0])
     \/ videos' = <<>>
  /\ pPc' = "collected"
  /\ UNCHANGED <<skip_notebooklm, xi, extractRaised, notebooklm_analysis,
                 reported, seen>>
  /\ UNCHANGED <<uploadVars, frameVars, sessionVars, addVars, resoVars,
                 askVars>>

\* main.py lines 73-82: nothing collected, an empty report and return; the
\* call is outside any try
PipeEmptyReport ==
  /\ pPc = "collected"
  /\ Len(videos) = 0
  /\ reported' = [called |-> TRUE, videos |-> <<>>, analysis |-> None]
  /\ \E ok \in BOOLEAN : pPc' = IF ok THEN "done" ELSE "crashed"
  /\ UNCHANGED <<skip_notebooklm, videos, xi, extractRaised,
                 notebooklm_analysis, seen>>
  /\ UNCHANGED <<uploadVars, frameVars, sessionVars, addVars, resoVars,
                 askVars>>

\* main.py lines 91-93, transcript_extractor.py lines 136-140
PipeExtractStart ==
  /\ pPc = "collected"
  /\ Len(videos) > 0
  /\ pPc' = "extract"
  /\ xi' = 1
  /\ UNCHANGED <<skip_notebooklm, videos, extractRaised, notebooklm_analysis,
                 reported, seen>>
  /\ UNCHANGED <<uploadVars, frameVars, sessionVars, addVars, resoVars,
                 askVars>>

\* main.py lines 94-98: what Phase 2 leaves behind when it raised
ExtractFailed(list) ==
  /\ extractRaised' = TRUE
  /\ IF ExtractionHandling = "continue"
       THEN pPc' = "analysis" /\ videos_with_transcripts' = list
       ELSE pPc' = "crashed" /\ UNCHANGED videos_with_transcripts

\* transcript_extractor.py lines 140-163: one video; extract_transcript
\* returns a text, "" or None, and save_transcript may raise after the
\* record was assigned to
PipeExtractVideo ==
  /\ pPc = "extract"
  /\ xi <= Len(videos)
  /\ \E len \in ExtractedLens, saved \in BOOLEAN :
       LET text == MkText(videos[xi].video_id, len)
       IN IF Retrieved(text)
            THEN /\ videos' = [videos EXCEPT ![xi].transcript = text]
                 /\ IF saved
                      THEN /\ xi' = xi + 1
                           /\ UNCHANGED <<pPc, extractRaised,
                                          videos_with_transcripts>>
                      ELSE /\ ExtractFailed(videos')
                           /\ UNCHANGED xi
            ELSE /\ xi' = xi + 1
                 /\ UNCHANGED <<videos, pPc, extractRaised,
                                videos_with_transcripts>>
  /\ UNCHANGED <<skip_notebooklm, notebooklm_analysis, reported, seen>>
  /\ UNCHANGED <<patchrightInstalled, uPc, idx, uploaded, handed, injected,
                 printed, result>>
  /\ UNCHANGED <<frameVars, sessionVars, addVars, resoVars, askVars>>

\* transcript_extractor.py lines 165-166, main.py line 93
PipeExtractReturn ==
  /\ pPc = "extract"
  /\ xi > Len(videos)
  /\ videos_with_transcripts' = results(Len(videos))
  /\ pPc' = "analysis"
  /\ UNCHANGED <<skip_notebooklm, videos, xi, extractRaised,
                 notebooklm_analysis, reported, seen>>
  /\ UNCHANGED <<patchrightInstalled, uPc, idx, uploaded, handed, injected,
                 printed, result>>
  /\ UNCHANGED <<frameVars, sessionVars, addVars, resoVars, askVars>>

\* main.py lines 103-115, 120-122: Phase 3 is entered or left out
PipeAnalysis ==
  /\ pPc = "analysis"
  /\ IF RunAnalysis(skip_notebooklm, videos_with_transcripts)
       THEN pPc' = "in_analysis" /\ uPc' = "entry"
       ELSE pPc' = "report" /\ UNCHANGED uPc
  /\ UNCHANGED <<skip_notebooklm, videos, xi, extractRaised,
                 notebooklm_analysis, reported, seen>>
  /\ UNCHANGED <<videos_with_transcripts, patchrightInstalled, idx, uploaded,
                 handed, injected, printed, result>>
  /\ UNCHANGED <<frameVars, sessionVars, addVars, resoVars, askVars>>

\* main.py lines 112-119: upload_transcripts_and_analyze returned or raised
PipeAfterUpload ==
  /\ pPc = "in_analysis"
  /\ uPc \in {"done", "raised"}
  /\ IF uPc = "done"
       THEN notebooklm_analysis' = result /\ pPc' = "report"
       ELSE /\ UNCHANGED notebooklm_analysis
            /\ pPc' = IF AnalysisHandling = "continue"
                        THEN "report" ELSE "crashed"
  /\ UNCHANGED <<skip_notebooklm, videos, xi, extractRaised, reported, seen>>
  /\ UNCHANGED <<uploadVars, frameVars, sessionVars, addVars, resoVars,
                 askVars>>

\* main.py lines 132-142: Phase 4a, generate_briefing_report is called with
\* the list and the analysis; a failure is caught
PipeReport ==
  /\ pPc = "report"
  /\ reported' = [called |-> TRUE, videos |-> videos_with_transcripts,
                  analysis |-> notebooklm_analysis]
  /\ pPc' = "infographic"
  /\ UNCHANGED <<skip_notebooklm, videos, xi, extractRaised,
                 notebooklm_analysis, seen>>
  /\ UNCHANGED <<uploadVars, frameVars, sessionVars, addVars, resoVars,
                 askVars>>

\* main.py lines 145-168: Phases 4b and 4c, each in its own try
PipeInfographics ==
  /\ pPc \in {"infographic", "prompt"}
  /\ pPc' = IF pPc = "infographic" THEN "prompt" ELSE "done"
  /\ UNCHANGED <<skip_notebooklm, videos, xi, extractRaised,
                 notebooklm_analysis, reported, seen>>
  /\ UNCHANGED <<uploadVars, frameVars, sessionVars, addVars, resoVars,
                 askVars>>

\* run_pipeline is called: main.py lines 30-62
PipeInit ==
  /\ pPc = "collect"
  /\ skip_notebooklm \in BOOLEAN
  /\ videos = <<>>
  /\ xi = 0
  /\ extractRaised = FALSE
  /\ notebooklm_analysis = None
  /\ reported = NotReported
  /\ seen = {}
  /\ videos_with_transcripts = <<>>
  /\ patchrightInstalled = TRUE
  /\ uPc = "idle"
  /\ IdleInit

\* --------------------------------------- a caller of the protocol calls
\* what the caller of a protocol call gets back
Returned ==
  IF callee = "add_source_to_notebook"
    THEN IF success THEN "True" ELSE "False"
    ELSE askResult

\* why the returning call failed: the library or the credential was
\* missing (lines 54, 61, 233, 240), or it failed after the credential check
Cause ==
  CASE Returned \notin {"False", None} -> "none"
    [] auth = "unchecked" -> "library"
    [] auth = "missing" -> "credential"
    [] OTHER -> "protocol"

\* the call that is returning, as its caller and its operator see it
Observed ==
  [fn |-> callee, cause |-> Cause, report |-> failure, value |-> Returned]

\* add_source_to_notebook is called with a text and a title
CallAdd ==
  /\ uPc = "direct"
  /\ callee = "none"
  /\ Cardinality(seen) < MaxObserved
  /\ EnterCall("add_source_to_notebook")
  /\ success' = FALSE
  /\ interacted' = FALSE
  /\ UNCHANGED <<pipeVars, seen, uploadVars, clipboard, askVars>>

\* ask_notebook is called with the briefing question
CallAsk ==
  /\ uPc = "direct"
  /\ callee = "none"
  /\ Cardinality(seen) < MaxObserved
  /\ EnterCall("ask_notebook")
  /\ question' = briefing_question
  /\ input_found' = FALSE
  /\ enters' = 0
  /\ round' = 0
  /\ sleeps' = 0
  /\ answer' = None
  /\ askResult' = None
  /\ UNCHANGED <<pipeVars, seen, uploadVars, addVars, askCalls>>

\* the call returns to its caller
CallReturn ==
  /\ uPc = "direct"
  /\ pc = "return"
  /\ seen' = seen \cup {Observed}
  /\ callee' = "none"
  /\ pc' = "idle"
  /\ LeaveCall
  /\ stage' = 0
  /\ cand' = 0
  /\ auth' = "unchecked"
  /\ playwright' = "none"
  /\ browser' = "none"
  /\ navigated' = FALSE
  /\ touched' = FALSE
  /\ reso' = NoReso
  /\ ops' = <<>>
  /\ UNCHANGED <<pipeVars, uploadVars, raised, liveSessions, addVars, askVars>>

\* a caller that makes protocol calls one after the other
CallInit ==
  /\ NoPipeline
  /\ seen = {}
  /\ videos_with_transcripts = MkVideos(<<MAX_TRANSCRIPT_CHARS>>)
  /\ patchrightInstalled \in BOOLEAN
  /\ uPc = "direct"
  /\ idx = 1
  /\ uploaded = 0
  /\ handed = <<[source_title |-> FormatTitle(videos_with_transcripts[1]),
                 source_text |-> videos_with_transcripts[1].transcript]>>
  /\ injected = <<>>
  /\ printed = <<>>
  /\ result = None
  /\ callee = "none"
  /\ pc = "idle"
  /\ stage = 0
  /\ cand = 0
  /\ auth = "unchecked"
  /\ playwright = "none"
  /\ browser = "none"
  /\ navigated = FALSE
  /\ loaded = FALSE
  /\ touched = FALSE
  /\ raised = FALSE
  /\ failure = "none"
  /\ liveSessions = 0
  /\ success = FALSE
  /\ clipboard = MkText(0, 0)
  /\ interacted = FALSE
  /\ reso = NoReso
  /\ ops = <<>>
  /\ question = None
  /\ askCalls = 0
  /\ input_found = FALSE
  /\ enters = 0
  /\ round = 0
  /\ sleeps = 0
  /\ answer = None
  /\ askResult = None

\* ------------------------------------------------------------------- next
Next ==
  \/ UploadEntry
  \/ UploadSkip
  \/ UploadInject
  \/ UploadAfterInject
  \/ UploadNothing
  \/ UploadAsk
  \/ UploadAfterAsk
  \/ AddImport
  \/ AddAuthCheck
  \/ AddLaunch
  \/ AddGoto
  \/ AddWait
  \/ AddProbe
  \/ AddAct
  \/ AddLoopEnd
  \/ AddClose
  \/ AskImport
  \/ AskAuthCheck
  \/ AskLaunch
  \/ AskGoto
  \/ AskSettle
  \/ AskProbeInput
  \/ AskActInput
  \/ AskInputMissing
  \/ AskEnter
  \/ AskInitialWait
  \/ AskProbeResponse
  \/ AskReadResponse
  \/ AskRoundEnd
  \/ AskClose

Spec == Init /\ [][Next]_vars

\* The call is sequential code: as long as a next statement exists it is
\* executed, every browser operation returning or raising.
FairSpec == Init /\ [][Next]_vars /\ WF_vars(Next)

\* run_pipeline: the pipeline steps around upload_transcripts_and_analyze
PipeNext ==
  \/ PipeCollect
  \/ PipeEmptyReport
  \/ PipeExtractStart
  \/ PipeExtractVideo
  \/ PipeExtractReturn
  \/ PipeAnalysis
  \/ PipeAfterUpload
  \/ PipeReport
  \/ PipeInfographics
  \/ Next

\* every call made in run_pipeline returns or raises, so the pipeline takes
\* its next step as long as it has one
PipeSpec == PipeInit /\ [][PipeNext]_vars /\ WF_vars(PipeNext)

ProtocolSteps ==
  \/ AddImport
  \/ AddAuthCheck
  \/ AddLaunch
  \/ AddGoto
  \/ AddWait
  \/ AddProbe
  \/ AddAct
  \/ AddLoopEnd
  \/ AddClose
  \/ AskImport
  \/ AskAuthCheck
  \/ AskLaunch
  \/ AskGoto
  \/ AskSettle
  \/ AskProbeInput
  \/ AskActInput
  \/ AskInputMissing
  \/ AskEnter
  \/ AskInitialWait
  \/ AskProbeResponse
  \/ AskReadResponse
  \/ AskRoundEnd
  \/ AskClose

\* the protocol calls made directly, any number of times
CallNext ==
  \/ CallAdd
  \/ CallAsk
  \/ CallReturn
  \/ ProtocolSteps

CallSpec == CallInit /\ [][CallNext]_vars

TypeOK ==
  /\ uPc \in {"idle", "direct", "entry", "loop", "inject", "ask", "done",
             "raised"}
  /\ pPc \in {"off", "collect", "collected", "extract", "analysis",
             "in_analysis", "report", "infographic", "prompt", "done",
             "crashed"}
  /\ callee \in {"none", "add_source_to_notebook", "ask_notebook"}
  /\ uploaded \in 0..MaxVideos
  /\ playwright \in {"none", "started", "stopped"}
  /\ browser \in {"none", "open", "closed"}
  /\ round \in 0..POLL_ROUNDS

\* ================================================================ claims
\* the videos of the input list that carry a transcript, up to index n
WithTranscript(n) ==
  {i \in 1..n : i <= Len(videos_with_transcripts)
                /\ TextLen(videos_with_transcripts[i].transcript) > 0}

\* no protocol call is active or has been made, and no session exists
NoProtocolActivity ==
  /\ callee = "none"
  /\ handed = <<>>
  /\ injected = <<>>
  /\ askCalls = 0
  /\ playwright = "none"
  /\ browser = "none"
  /\ ~navigated
  /\ ~touched

\* C1: with an empty document list upload_transcripts_and_analyze returns
\* None at once: the document loop is not entered, neither
\* add_source_to_notebook nor ask_notebook is called, nothing is navigated
\* to and no browser session is launched.
C1_EmptyListReturnsAbsent ==
  Len(videos_with_transcripts) = 0 =>
    /\ NoProtocolActivity
    /\ uPc \in {"entry", "done"}
    /\ uPc = "done" => result = None

C1_Witness ==
  /\ Len(videos_with_transcripts) = 0
  /\ uPc = "done"
  /\ result = None
  /\ printed = <<"no_transcripts">>

\* every add_source_to_notebook call made so far has returned failure
AllInjectionsFailed == \A k \in 1..Len(injected) : ~injected[k]

\* C2: for a non-empty document list, as long as every injection has
\* returned failure ask_notebook is not called, and a run that ends that way
\* returns None.
C2_AllFailedNeverAsks ==
  (Len(videos_with_transcripts) > 0 /\ AllInjectionsFailed) =>
    /\ askCalls = 0
    /\ callee # "ask_notebook"
    /\ uPc = "done" => result = None

C2_Witness ==
  /\ Len(injected) = MaxVideos
  /\ AllInjectionsFailed
  /\ uPc = "done"
  /\ result = None
  /\ askCalls = 0

\* C3: ask_notebook is called at most once; when it is called the question
\* is the fixed briefing question, some injection has succeeded and the
\* injection of every document has returned; and a run in which an
\* injection succeeded ends with exactly one ask_notebook call whose result
\* is the return value.
C3_AskOnceAfterAllInjections ==
  /\ askCalls <= 1
  /\ askCalls = 1 =>
       /\ question = "briefing_question[389-397]"
       /\ \E k \in 1..Len(injected) : injected[k]
       /\ Len(injected) = Cardinality(WithTranscript(Len(videos_with_transcripts)))
       /\ Len(handed) = Len(injected)
       /\ callee # "add_source_to_notebook"
       /\ uPc \in {"ask", "done"}
  /\ (uPc = "done" /\ \E k \in 1..Len(injected) : injected[k]) =>
       /\ askCalls = 1
       /\ result = askResult

C3_Witness ==
  /\ uPc = "done"
  /\ Len(injected) = MaxVideos
  /\ \E k \in 1..Len(injected) : injected[k]
  /\ \E k \in 1..Len(injected) : ~injected[k]
  /\ askCalls = 1
  /\ result = "valid answer"

\* the video whose transcript the k-th add_source_to_notebook call was given
SourceOf(k) == videos_with_transcripts[handed[k].source_text.src]

\* C4: the body handed to add_source_to_notebook for a transcript longer
\* than 200,000 characters is its first 200,000 characters followed by the
\* omission marker, which is not empty; a transcript of at most 200,000
\* characters is handed over unchanged.
C4_TruncatedBodyIsPrefixPlusMarker ==
  \A k \in 1..Len(handed) :
    LET transcript == SourceOf(k).transcript
        body == handed[k].source_text
    IN IF transcript.len > 200000
         THEN /\ body.src = transcript.src
              /\ body.len = 200000
              /\ body.tail = OMISSION_MARKER
              /\ Len(OMISSION_MARKER) > 0
         ELSE body = transcript

C4_Witness ==
  /\ Len(handed) = 2
  /\ SourceOf(1).transcript.len = 200000
  /\ handed[1].source_text = SourceOf(1).transcript
  /\ SourceOf(2).transcript.len = 200001
  /\ handed[2].source_text.len = 200000
  /\ handed[2].source_text.tail = OMISSION_MARKER

\* every oversized video the loop has passed was handed to
\* add_source_to_notebook
OversizedInjected ==
  \A i \in WithTranscript(idx - 1) :
    videos_with_transcripts[i].transcript.len > 200000 =>
      \E k \in 1..Len(handed) : handed[k].source_text.src = i

\* C5 (as claimed): every body handed to add_source_to_notebook has at most
\* 200,000 characters, and an oversized document is still injected.
C5_BodyWithinMaximum ==
  /\ \A k \in 1..Len(handed) :
       handed[k].source_text.len + Len(handed[k].source_text.tail) <= 200000
  /\ OversizedInjected

\* C5 (amended): the transcript part of every body handed to
\* add_source_to_notebook has at most 200,000 characters and the body at
\* most 200,000 plus the 16 characters of the omission marker; an oversized
\* document is still injected.
C5_BodyWithinMaximumPlusMarker ==
  /\ \A k \in 1..Len(handed) :
       /\ handed[k].source_text.len <= 200000
       /\ handed[k].source_text.len + Len(handed[k].source_text.tail) <= 200016
  /\ OversizedInjected

C5_Witness ==
  /\ uPc = "done"
  /\ Len(handed) >= 1
  /\ SourceOf(1).transcript.len = 200001
  /\ handed[1].source_text.len + Len(handed[1].source_text.tail) = 200016

\* number of candidates of the selector list the active loop walks
ListLength ==
  IF pc = "poll_probe"
    THEN 4
    ELSE IF callee = "ask_notebook" THEN 6 ELSE <<6, 6, 5, 4, 6>>[stage]

\* C6 (as claimed): at the end of every resolution loop of
\* add_source_to_notebook and of the prompt-input loop of ask_notebook, the
\* element acted on is the first candidate whose probe succeeded, and the
\* loop signals not-found exactly when no probe succeeded.
C6_FirstVisibleSelected ==
  pc = "loop_end" =>
    /\ reso.firstVisible # 0 => reso.acted = {reso.firstVisible}
    /\ reso.firstVisible = 0 => reso.acted = {}
    /\ ~reso.found <=> reso.firstVisible = 0

\* C7 (as claimed): in the resolution loops of add_source_to_notebook and
\* the prompt-input loop of ask_notebook, once a probe has succeeded no later
\* candidate is probed or acted on.
C7_ShortCircuit ==
  (pc \in {"probe", "act", "loop_end"} /\ reso.firstVisible # 0) =>
    /\ reso.probed = reso.firstVisible
    /\ reso.acted \subseteq {reso.firstVisible}

\* C8: a probe that throws is handled as a probe that reports not visible:
\* the step of a probe that misses, either way, raises nothing, ends no call,
\* acts on nothing and moves to the next candidate, or to the end of the
\* loop after the last one; but for the recorded probe result the successor
\* state does not depend on how the probe missed.
C8_ThrowingProbeIsInvisible ==
  [][(pc \in {"probe", "poll_probe"} /\ reso'.probed = cand
        /\ reso'.lastProbe \in {"throws", "invisible"}) =>
       /\ ~raised'
       /\ callee' = callee
       /\ reso' = [reso EXCEPT !.probed = cand, !.lastProbe = reso'.lastProbe]
       /\ <<playwright', browser', success', askResult', answer',
            input_found', clipboard', ops', stage', round'>>
            = <<playwright, browser, success, askResult, answer,
                input_found, clipboard, ops, stage, round>>
       /\ IF cand < ListLength
            THEN pc' = pc /\ cand' = cand + 1
            ELSE /\ pc' = IF pc = "probe" THEN "loop_end" ELSE "round_end"
                 /\ cand' = cand]_vars

C8_Witness ==
  /\ callee = "add_source_to_notebook"
  /\ pc = "probe"
  /\ stage = 4
  /\ cand = 2
  /\ reso.probed = 1
  /\ reso.lastProbe = "throws"
  /\ ~raised

\* C9 (as claimed): add_source_to_notebook does not raise when an optional
\* selector is not found, and it raises exactly when the Session Credential
\* is missing.
C9_RaisesOnlyWithoutCredential ==
  callee = "add_source_to_notebook" =>
    /\ (pc = "loop_end" /\ ~reso.found) => ~raised
    /\ pc = "return" => (raised <=> auth = "missing")

\* C9 (amended): add_source_to_notebook never raises: not when an optional
\* selector is not found, not when a browser operation fails, and not when
\* the Session Credential is missing, where it returns False.
C9_NeverRaises ==
  callee = "add_source_to_notebook" =>
    /\ ~raised
    /\ (pc = "return" /\ auth = "missing") => ~success

C9_Witness ==
  /\ callee = "add_source_to_notebook"
  /\ pc = "return"
  /\ auth = "missing"
  /\ ~raised
  /\ ~success

\* C10: a protocol call that finds the Session Credential missing returns
\* its failure value at once: no driver is started, no browser launched, no
\* page navigated to or touched.
C10_NoCredentialFailsFast ==
  (callee # "none" /\ auth = "missing") =>
    /\ pc = "return"
    /\ playwright = "none"
    /\ browser = "none"
    /\ ~navigated
    /\ ~touched
    /\ ~raised
    /\ callee = "add_source_to_notebook" => ~success
    /\ callee = "ask_notebook" => askResult = None

C10_Witness ==
  /\ callee = "ask_notebook"
  /\ pc = "return"
  /\ auth = "missing"
  /\ askResult = None
  /\ browser = "none"

\* C11: add_source_to_notebook returns True whenever the call got through
\* launch, navigation and the motions without a hard exception, however
\* many of the five intents resolved; in particular when none resolved and
\* nothing was typed, pasted or submitted.
C11_SuccessRegardlessOfIntents ==
  (callee = "add_source_to_notebook" /\ pc = "return" /\ failure = "none") =>
    /\ success
    /\ loaded
    /\ stage = 5

C11_Witness ==
  /\ callee = "add_source_to_notebook"
  /\ pc = "return"
  /\ success
  /\ loaded
  /\ ~interacted
  /\ Len(handed) = 1
  /\ clipboard.len = 0

\* C12: when the session launch or page.goto raises, add_source_to_notebook
\* attempts none of the five steps (no probe, no interaction, nothing
\* resolved) and returns False without raising.
C12_LaunchOrNavigationFailureAborts ==
  callee = "add_source_to_notebook" =>
    /\ ~loaded =>
         /\ ~touched
         /\ stage = 0
         /\ ~interacted
         /\ pc \in {"import", "auth", "launch", "goto", "return"}
    /\ (pc = "return" /\ auth = "present" /\ ~loaded) =>
         /\ ~success
         /\ ~raised
         /\ failure = "exception"

C12_Witness ==
  /\ callee = "add_source_to_notebook"
  /\ pc = "return"
  /\ navigated
  /\ ~loaded
  /\ ~touched
  /\ ~success
  /\ failure = "exception"

\* C13: after page.goto succeeded add_source_to_notebook walks the five
\* intents in the order add-source, paste-text type, name, body, submit:
\* the intent number only ever grows by one, each intent starts with its
\* first candidate, the end of a loop always leads to the next intent
\* whether or not the loop found anything, and browser.close() is reached
\* only after the fifth intent.
C13_FiveStepsInOrder ==
  [][(callee = "add_source_to_notebook" /\ callee' = callee /\ loaded) =>
       /\ stage' \in {stage, stage + 1}
       /\ stage' = stage + 1 => (pc' = "probe" /\ cand' = 1)
       /\ pc = "loop_end" =>
            IF stage = 3
              THEN pc' = "probe" /\ stage' = 4
              ELSE pc' = "wait" /\ stage' = stage
       /\ (pc = "wait" /\ pc' # "return") =>
            IF stage = 5
              THEN pc' = "close"
              ELSE pc' = "probe" /\ stage' = stage + 1
       /\ pc' = "close" => stage' = 5]_vars

C13_Witness ==
  /\ callee = "add_source_to_notebook"
  /\ pc = "probe"
  /\ stage = 5
  /\ ~interacted

\* C14: as long as ask_notebook has found no prompt input it sends no Enter
\* and performs no poll round or poll sleep, and at the end of the input
\* loop it returns None at once.
C14_NoInputAborts ==
  callee = "ask_notebook" =>
    /\ ~input_found =>
         /\ enters = 0
         /\ round = 0
         /\ sleeps = 0
         /\ answer = None
         /\ askResult = None
         /\ pc \in {"import", "auth", "launch", "goto", "wait", "probe", "act",
                    "loop_end", "return"}
    /\ (pc = "return" /\ failure = "input_not_found") =>
         /\ ~input_found
         /\ ~raised

C14_Witness ==
  /\ callee = "ask_notebook"
  /\ pc = "return"
  /\ failure = "input_not_found"
  /\ ~input_found
  /\ touched
  /\ enters = 0
  /\ round = 0
  /\ askResult = None

\* C15: the poll round in which text longer than 10 characters is read is
\* the last one: the text is read in round k after k - 1 poll sleeps, and
\* from then on no round is started, no poll sleep is made, the text is kept
\* and the call goes to browser.close() and returns the text.
C15_PollingStopsAtFirstAnswer ==
  [][(callee' = "ask_notebook" /\ answer' # None) =>
       /\ Len(answer') > 10
       /\ round' = round
       /\ sleeps' = sleeps
       /\ round \in 1..12
       /\ sleeps = round - 1
       /\ answer = None => pc = "poll_read" /\ pc' = "round_end"
       /\ answer # None =>
            /\ answer' = answer
            /\ pc' \in {"close", "return"}
            /\ (pc' = "return" /\ failure' = "none") => askResult' = answer]_vars

C15_Witness ==
  /\ callee = "ask_notebook"
  /\ pc = "return"
  /\ round = 3
  /\ sleeps = 2
  /\ answer = "valid answer"
  /\ askResult = "valid answer"

\* C16: ask_notebook performs at most 12 poll rounds; while round k is
\* polled k - 1 poll sleeps have been made; and a call that goes to
\* browser.close() without an answer has polled 12 rounds and returns None
\* with no error reported and nothing raised.
C16_PollingBounded ==
  callee = "ask_notebook" =>
    /\ round <= 12
    /\ pc \in {"poll_probe", "poll_read", "round_end"} => sleeps = round - 1
    /\ (pc = "close" /\ answer = None) => round = 12
    /\ (pc = "return" /\ browser = "closed" /\ enters = 1 /\ answer = None) =>
         /\ round = 12
         /\ askResult = None
         /\ failure = "none"
         /\ ~raised

C16_Witness ==
  /\ callee = "ask_notebook"
  /\ pc = "return"
  /\ browser = "closed"
  /\ enters = 1
  /\ round = 12
  /\ askResult = None
  /\ failure = "none"

\* C17: every value other than None that ask_notebook holds as its answer
\* or returns, and that upload_transcripts_and_analyze returns, is a text
\* read with inner_text() from a response region whose probe reported
\* visible, unchanged, and is longer than 10 characters.
C17_AnswerIsAcceptedRegionText ==
  /\ \A v \in {answer, askResult, result} :
       v # None => (v \in ResponseTexts /\ Len(v) > 10)
  /\ askResult # None => askResult = answer
  /\ result # None => result = askResult
  /\ (callee = "ask_notebook" /\ pc = "round_end" /\ answer # None) =>
       /\ reso.lastProbe = "visible"
       /\ ops = <<"inner_text">>

C17_Witness ==
  /\ uPc = "done"
  /\ result # None
  /\ Len(result) = 12
  /\ result = answer

\* C18: when add_source_to_notebook or ask_notebook returns, the browser
\* session it launched is terminated (closed, or its driver stopped), on
\* every exit path.
C18_SessionTerminatedOnReturn ==
  (callee # "none" /\ pc = "return") =>
    /\ ~(browser = "open" /\ playwright = "started")
    /\ playwright # "started"
    /\ browser = "closed" => playwright = "stopped"

C18_Witness ==
  /\ callee = "ask_notebook"
  /\ pc = "return"
  /\ failure = "exception"
  /\ touched
  /\ browser = "open"
  /\ playwright = "stopped"

\* C19: at most one browser session is live at any time, the live session
\* is the one of the protocol call in progress, and none is live between
\* two protocol calls or when a call is about to launch its own.
C19_AtMostOneSession ==
  /\ liveSessions \in {0, 1}
  /\ liveSessions = 1 =>
       /\ callee # "none"
       /\ browser = "open"
       /\ playwright = "started"
       /\ pc \notin {"import", "auth", "launch", "return"}
  /\ uPc \in {"entry", "loop", "done"} => liveSessions = 0

C19_Witness ==
  /\ callee = "add_source_to_notebook"
  /\ Len(handed) = 2
  /\ Len(injected) = 1
  /\ liveSessions = 1
  /\ pc = "probe"

\* C20: upload_transcripts_and_analyze never raises: a failure in a
\* protocol call (selector miss, navigation or in-page fault, poll without
\* answer) comes back as False from add_source_to_notebook or None from
\* ask_notebook, and the function returns None or the answer text.
C20_UploadNeverRaises ==
  /\ uPc # "raised"
  /\ ~raised
  /\ \A k \in 1..Len(injected) : injected[k] \in BOOLEAN
  /\ uPc = "done" => (result = None \/ result \in ResponseTexts)

C20_Witness ==
  /\ uPc = "ask"
  /\ pc = "return"
  /\ failure = "exception"
  /\ askResult = None
  /\ Len(injected) = 2
  /\ ~injected[1]
  /\ injected[2]

C22_InteractionFaultFailsCall ==
  [][(\/ /\ callee = "add_source_to_notebook"
         /\ pc = "act"
         /\ Len(ops') < <<1, 1, 1, 4, 1>>[stage]
      \/ /\ callee = "ask_notebook"
         /\ pc = "act"
         /\ Len(ops') < 2
      \/ /\ callee = "ask_notebook"
         /\ pc = "poll_read"
         /\ ops' = <<>>) =>
       /\ pc' = "return"
       /\ ~raised'
       /\ callee = "add_source_to_notebook" => ~success'
       /\ callee = "ask_notebook" => askResult' = None]_vars

\* C23: once run_pipeline has collected at least one video and starts
\* Phase 2, generate_briefing_report is eventually called and Phase 4 runs
\* to its end, whatever Phase 2 and Phase 3 did; and the analysis passed to
\* the report is the value upload_transcripts_and_analyze returned, or None
\* when Phase 3 was left out.
C23_ReportingAlwaysReached ==
  /\ (pPc = "extract" /\ Len(videos) > 0) ~>
       (pPc = "done" /\ reported.called)
  /\ [](reported.called =>
          /\ reported.analysis = notebooklm_analysis
          /\ reported.analysis \in {None, "valid answer"}
          /\ uPc = "done" => reported.analysis = result
          /\ uPc = "idle" => reported.analysis = None)

C23_Witness ==
  /\ pPc = "done"
  /\ reported.called
  /\ extractRaised
  /\ uPc = "done"
  /\ reported.analysis = "valid answer"

\* number of add_source_to_notebook calls made for the video at index i
InjectionsOf(i) ==
  Cardinality({k \in 1..Len(handed) : handed[k].source_text.src = i})

\* C24 (as claimed): every document of the list the loop has passed was
\* handed to add_source_to_notebook exactly once.
C24_EveryDocumentInjectedOnce ==
  \A i \in 1..Len(videos_with_transcripts) :
    i < idx => InjectionsOf(i) = 1

\* C24 (amended): every document with a non-empty transcript that the loop
\* has passed was handed to add_source_to_notebook exactly once (one
\* without transcript never), in input order, whatever the earlier
\* injections returned; the loop passes every document; and the counter
\* equals the number of injections that returned True.
C24_EveryTranscriptInjectedOnce ==
  /\ \A i \in 1..Len(videos_with_transcripts) :
       i < idx =>
         InjectionsOf(i) =
           IF videos_with_transcripts[i].transcript.len > 0 THEN 1 ELSE 0
  /\ \A j, k \in 1..Len(handed) :
       j < k => handed[j].source_text.src < handed[k].source_text.src
  /\ Len(injected) = IF uPc = "inject" THEN Len(handed) - 1 ELSE Len(handed)
  /\ uploaded = Cardinality({k \in 1..Len(injected) : injected[k]})
  /\ (uPc \in {"ask", "done"} /\ Len(videos_with_transcripts) > 0) =>
       idx = Len(videos_with_transcripts) + 1

C24_Witness ==
  /\ uPc = "done"
  /\ Len(videos_with_transcripts) = 2
  /\ injected = <<FALSE, TRUE>>
  /\ handed[1].source_text.src = 1
  /\ handed[2].source_text.src = 2
  /\ uploaded = 1

\* C25: in a poll round of ask_notebook the response regions are probed in
\* list order from the first one; a region that is invisible, whose probe
\* or inner_text() throws, or whose text has 10 characters or less is
\* followed by the next region of the same round (the round ends after the
\* fourth), and the round ends early only by taking the text of the region
\* just read, which is longer than 10 characters.
C25_RegionsInListOrder ==
  [][/\ (callee' = "ask_notebook" /\ pc' = "poll_probe"
           /\ pc \notin {"poll_probe", "poll_read"}) => cand' = 1
     /\ (callee = "ask_notebook" /\ pc \in {"poll_probe", "poll_read"}) =>
          /\ answer = None
          /\ round' = round
          /\ IF pc = "poll_probe" /\ reso'.lastProbe = "visible"
               THEN pc' = "poll_read" /\ cand' = cand /\ answer' = None
               ELSE IF answer' # None
                 THEN /\ pc = "poll_read"
                      /\ pc' = "round_end"
                      /\ cand' = cand
                      /\ Len(answer') > 10
                      /\ reso'.completed = {cand}
                 ELSE IF cand < 4
                   THEN pc' = "poll_probe" /\ cand' = cand + 1
                   ELSE pc' = "round_end"]_vars

C25_Witness ==
  /\ callee = "ask_notebook"
  /\ pc = "round_end"
  /\ answer = "valid answer"
  /\ cand = 3
  /\ reso.acted = {1, 3}
  /\ reso.completed = {3}

\* C26: in the text-body loop of add_source_to_notebook the interactions
\* with a candidate are a prefix of clipboard write, click (focus),
\* select-all, paste, and once any of them was made the clipboard holds the
\* body handed to the call, so a paste always follows the write of that
\* body.
C26_ClipboardBeforePaste ==
  (callee = "add_source_to_notebook" /\ stage = 4) =>
    /\ \E n \in 0..4 :
         ops = SubSeq(<<"clipboard_write", "click", "select_all", "paste">>,
                      1, n)
    /\ Len(ops) >= 1 => clipboard = handed[Len(handed)].source_text

C26_Witness ==
  /\ callee = "add_source_to_notebook"
  /\ stage = 4
  /\ pc = "loop_end"
  /\ ops = <<"clipboard_write", "click", "select_all", "paste">>
  /\ clipboard = handed[Len(handed)].source_text
  /\ clipboard.tail = OMISSION_MARKER

\* C27: ask_notebook presses Enter at most once, only after click and fill
\* completed on a visible prompt input, and polls no round before it.
C27_EnterOnceBeforePolling ==
  callee = "ask_notebook" =>
    /\ enters \in {0, 1}
    /\ enters = 1 => input_found
    /\ round >= 1 => enters = 1
    /\ pc \in {"initial_wait", "poll_probe", "poll_read", "round_end",
               "close"} => enters = 1

C27_Witness ==
  /\ callee = "ask_notebook"
  /\ pc = "poll_probe"
  /\ round = 1
  /\ enters = 1
  /\ input_found

\* run_pipeline is past Phase 2
PastExtraction ==
  pPc \in {"analysis", "in_analysis", "report", "infographic", "prompt",
           "done"}

\* C28: when extract_all_transcripts returns, its result is the videos of
\* its input that got a non-empty transcript, in input order, each with
\* its transcript; the videos without one are left out.
C28_OnlyRetrievedTranscripts ==
  (PastExtraction /\ ~extractRaised) =>
    /\ videos_with_transcripts =
         SelectSeq(videos, LAMBDA v : v.transcript.len > 0)
    /\ \A k \in 1..Len(videos_with_transcripts) :
         videos_with_transcripts[k].transcript.len > 0

C28_Witness ==
  /\ pPc = "analysis"
  /\ ~extractRaised
  /\ Len(videos) = 2
  /\ videos[1].transcript.len = 0
  /\ Len(videos_with_transcripts) = 1
  /\ videos_with_transcripts[1].video_id = 2

\* C29: upload_transcripts_and_analyze hands only documents with a
\* non-empty transcript to add_source_to_notebook and counts no other; for
\* a non-empty list in which no document has a transcript no call is made,
\* no session launched and no question asked, and the result is None.
C29_MissingTranscriptSkipped ==
  /\ \A k \in 1..Len(handed) :
       videos_with_transcripts[handed[k].source_text.src].transcript.len > 0
  /\ uploaded <= Cardinality({i \in 1..Len(videos_with_transcripts) :
                                videos_with_transcripts[i].transcript.len > 0})
  /\ (/\ Len(videos_with_transcripts) > 0
      /\ \A i \in 1..Len(videos_with_transcripts) :
           videos_with_transcripts[i].transcript.len = 0) =>
       /\ handed = <<>>
       /\ askCalls = 0
       /\ callee = "none"
       /\ playwright = "none"
       /\ browser = "none"
       /\ liveSessions = 0
       /\ uPc = "done" => result = None

C29_Witness ==
  /\ uPc = "done"
  /\ Len(videos_with_transcripts) = 2
  /\ videos_with_transcripts[1].transcript.len = 0
  /\ videos_with_transcripts[2].transcript.len = 0
  /\ result = None
  /\ printed = <<"analysis_start", "upload_summary", "analysis_skipped">>

\* the list Phase 2 left for Phase 3 and Phase 4
ListAfterExtraction ==
  IF extractRaised
    THEN videos
    ELSE SelectSeq(videos, LAMBDA v : v.transcript.len > 0)

\* C30: during and after upload_transcripts_and_analyze the list is the
\* one Phase 2 left, no record carries the omission marker, the record of
\* every document handed over truncated still holds its transcript of more
\* than 200,000 characters, and generate_briefing_report gets that list.
C30_InputRecordsUnchanged ==
  /\ (PastExtraction /\ Len(videos) > 0) =>
       /\ videos_with_transcripts = ListAfterExtraction
       /\ \A i \in 1..Len(videos_with_transcripts) :
            videos_with_transcripts[i].transcript.tail = <<>>
  /\ (pPc # "off" /\ uPc # "idle") =>
       \A k \in 1..Len(handed) :
         \E i \in 1..Len(videos_with_transcripts) :
           /\ videos_with_transcripts[i].video_id = handed[k].source_text.src
           /\ handed[k].source_text.tail # <<>> =>
                videos_with_transcripts[i].transcript.len > 200000
  /\ (reported.called /\ Len(videos) > 0) =>
       reported.videos = ListAfterExtraction

C30_Witness ==
  /\ pPc = "done"
  /\ Len(handed) = 2
  /\ handed[2].source_text.len = 200000
  /\ handed[2].source_text.tail = OMISSION_MARKER
  /\ Len(reported.videos) = 2
  /\ reported.videos[2].transcript.len = 200001
  /\ reported.videos[2].transcript.tail = <<>>

\* C31: within one add_source_to_notebook call the loop of an intent has at
\* most one candidate whose probe and interactions all completed; it is the
\* candidate handled last, the loop is left with it, and the loop of each
\* intent is run once, in the order of the intents.
C31_OneActivationPerIntent ==
  /\ [](callee = "add_source_to_notebook" =>
          /\ Cardinality(reso.completed) <= 1
          /\ reso.completed # {} =>
               /\ pc = "loop_end"
               /\ reso.completed = {cand}
               /\ \A c \in reso.acted : c <= cand)
  /\ [][(callee = "add_source_to_notebook"
           /\ callee' = "add_source_to_notebook") =>
          /\ stage' \in {stage, stage + 1}
          /\ (pc' = "probe" /\ cand' = 1) => stage' = stage + 1
          /\ reso.completed # {} => reso' = NoReso]_vars

C31_Witness ==
  /\ callee = "add_source_to_notebook"
  /\ pc = "loop_end"
  /\ stage = 4
  /\ cand = 2
  /\ reso.acted = {1, 2}
  /\ reso.completed = {2}
  /\ ops = <<"clipboard_write", "click", "select_all", "paste">>

\* C32: run_pipeline calls upload_transcripts_and_analyze exactly when
\* skip_notebooklm is false and the list Phase 2 left is non-empty; with
\* skip_notebooklm set the run makes no protocol call, hands over no
\* document, asks no question, launches no session, and the analysis given
\* to the report is None.
C32_AnalysisIffNotSkipped ==
  /\ pPc = "in_analysis" =>
       (~skip_notebooklm /\ Len(videos_with_transcripts) > 0)
  /\ pPc \in {"report", "infographic", "prompt", "done"} =>
       (uPc # "idle" <=>
          (~skip_notebooklm /\ Len(videos_with_transcripts) > 0))
  /\ skip_notebooklm =>
       /\ uPc = "idle"
       /\ callee = "none"
       /\ handed = <<>>
       /\ askCalls = 0
       /\ playwright = "none"
       /\ browser = "none"
       /\ liveSessions = 0
       /\ notebooklm_analysis = None
       /\ reported.called => reported.analysis = None

C32_Witness ==
  /\ pPc = "done"
  /\ skip_notebooklm
  /\ Len(videos_with_transcripts) = 2
  /\ videos_with_transcripts[1].transcript.len > 0
  /\ uPc = "idle"
  /\ reported.called
  /\ reported.analysis = None

\* C33: every call of upload_transcripts_and_analyze ends, by returning or
\* raising; on the way no document is handed over twice, ask_notebook is
\* called at most once, polling stops with the 12th round, and no loop
\* goes past the end of its candidate list.
C33_UploadTerminates ==
  /\ <>(uPc \in {"done", "raised"})
  /\ [](/\ Len(handed) <= Len(videos_with_transcripts)
        /\ askCalls <= 1
        /\ round <= 12
        /\ cand <= 6)
  /\ [][/\ idx' >= idx
        /\ (pc' = "probe" /\ pc \in {"probe", "act"}) => cand' = cand + 1
        /\ (pc' = "poll_probe" /\ pc \in {"poll_probe", "poll_read"}) =>
             cand' = cand + 1
        /\ round' \in {round, round + 1, 0}]_vars

C33_Witness ==
  /\ uPc = "done"
  /\ Len(videos_with_transcripts) = 2
  /\ uploaded = 2
  /\ askCalls = 1
  /\ injected = <<TRUE, TRUE>>
  /\ result = None

====
